---- MODULE Spec2Model ----
(***************************************************************************)
(* Model of the two-pass assembler of src/src/runtime/assembler.py.        *)
(*                                                                         *)
(* Text is a sequence of one-character strings.  A source line is a record *)
(*   [k, w, name, opd] with                                                *)
(*     k = "blank"   an empty line or a // comment                         *)
(*     k = "label"   the line  name:                                       *)
(*     k = "dir"     the line  %w opd    (w = <<>> is a bare "%")          *)
(*     k = "datadef" the line  name: %w opd  or  name: opd                 *)
(*     k = "ins"     the line  w opd                                       *)
(* opd is the operand split at single spaces; <<>> is "no operand".        *)
(* Operand and name characters never include ':' or '%', so a line starts  *)
(* with '%' iff k = "dir", ends with ':' iff k = "label" and contains ':'  *)
(* iff k is "label" or "datadef".  %include needs a file system and is not *)
(* part of the line vocabulary.                                            *)
(***************************************************************************)
EXTENDS Integers, Sequences, FiniteSets, TLC

----------------------------------------------------------------------------
(* Characters and the string functions the assembler uses                  *)

LowerLetters == <<"a", "b", "c", "d", "e", "f", "g", "h", "i", "j", "k", "l", "m", "n", "o", "p", "q", "r", "s", "t", "u", "v", "w", "x", "y", "z">>
UpperLetters == <<"A", "B", "C", "D", "E", "F", "G", "H", "I", "J", "K", "L", "M", "N", "O", "P", "Q", "R", "S", "T", "U", "V", "W", "X", "Y", "Z">>
DigitChars == <<"0", "1", "2", "3", "4", "5", "6", "7", "8", "9">>

Pos(seq, c) == IF \E i \in 1..Len(seq) : seq[i] = c
               THEN CHOOSE i \in 1..Len(seq) : seq[i] = c
               ELSE 0

\* str.isdigit on one character
IsDigit(c) == Pos(DigitChars, c) > 0

\* str.lower / str.upper
LowerChar(c) == IF Pos(UpperLetters, c) > 0 THEN LowerLetters[Pos(UpperLetters, c)] ELSE c
UpperChar(c) == IF Pos(LowerLetters, c) > 0 THEN UpperLetters[Pos(LowerLetters, c)] ELSE c
Lower(s) == [i \in 1..Len(s) |-> LowerChar(s[i])]
Upper(s) == [i \in 1..Len(s) |-> UpperChar(s[i])]

\* any(c.isdigit() for c in operand)
AnyDigit(s) == \E i \in 1..Len(s) : IsDigit(s[i])

\* str.startswith
StartsWith(s, p) == Len(s) >= Len(p) /\ SubSeq(s, 1, Len(p)) = p

\* str.encode(): the code point of each (ASCII) character
Ord(c) == IF Pos(LowerLetters, c) > 0 THEN 96 + Pos(LowerLetters, c)
          ELSE IF Pos(UpperLetters, c) > 0 THEN 64 + Pos(UpperLetters, c)
          ELSE IF IsDigit(c) THEN 47 + Pos(DigitChars, c)
          ELSE IF c = " " THEN 32
          ELSE IF c = "\"" THEN 34
          ELSE IF c = "$" THEN 36
          ELSE IF c = "_" THEN 95
          ELSE 63
Encode(s) == [i \in 1..Len(s) |-> Ord(s[i])]

\* str.strip('"'): drop every leading and trailing double quote
RECURSIVE LStripQuote(_)
LStripQuote(s) == IF s # <<>> /\ s[1] = "\"" THEN LStripQuote(Tail(s)) ELSE s
RECURSIVE RStripQuote(_)
RStripQuote(s) == IF s # <<>> /\ s[Len(s)] = "\"" THEN RStripQuote(SubSeq(s, 1, Len(s) - 1)) ELSE s
StripQuotes(s) == RStripQuote(LStripQuote(s))

\* ' '.join: the operand text as the regex group (.+) captured it
RECURSIVE Join(_)
Join(toks) == IF toks = <<>> THEN <<>>
              ELSE IF Len(toks) = 1 THEN toks[1]
              ELSE toks[1] \o <<" ">> \o Join(Tail(toks))

\* value of one base-16 digit, -1 when the character is not one
HexDigitVal(c) == IF IsDigit(c) THEN Pos(DigitChars, c) - 1
                  ELSE IF Pos(<<"a", "b", "c", "d", "e", "f">>, LowerChar(c)) > 0 THEN 9 + Pos(<<"a", "b", "c", "d", "e", "f">>, LowerChar(c))
                  ELSE -1

RECURSIVE DigitsValue(_, _)
DigitsValue(s, base) == IF s = <<>> THEN 0
                        ELSE DigitsValue(SubSeq(s, 1, Len(s) - 1), base) * base + HexDigitVal(s[Len(s)])

\* int(x, 16): an optional 0x/0X prefix, then one or more base-16 digits;
\* -1 stands for the ValueError it raises on anything else
IntBase16(s) == LET body == IF Len(s) >= 2 /\ s[1] = "0" /\ LowerChar(s[2]) = "x"
                            THEN SubSeq(s, 3, Len(s)) ELSE s
                IN IF body # <<>> /\ \A i \in 1..Len(body) : HexDigitVal(body[i]) >= 0
                   THEN DigitsValue(body, 16) ELSE -1

\* int(x): one or more decimal digits; -1 stands for the ValueError
IntBase10(s) == IF s # <<>> /\ \A i \in 1..Len(s) : IsDigit(s[i])
                THEN DigitsValue(s, 10) ELSE -1

----------------------------------------------------------------------------
(* Opcodes and instruction encoding                                        *)

\* class Op(Enum)
OpTable == << <<<<"N", "O", "P">>, 0>>, <<<<"P", "U", "S", "H", "I">>, 1>>, <<<<"P", "U", "S", "H", "S", "Z">>, 2>>, <<<<"P", "O", "P", "I">>, 3>>,
              <<<<"P", "O", "P", "S", "Z">>, 4>>, <<<<"J", "M", "P", "_", "A", "B", "S">>, 8>>, <<<<"J", "M", "P", "_", "R", "E", "L">>, 9>>, <<<<"J", "M", "P", "_", "E", "Q">>, 10>>,
              <<<<"J", "M", "P", "_", "N", "E">>, 11>>, <<<<"A", "D", "D">>, 12>>, <<<<"S", "U", "B">>, 13>>, <<<<"M", "U", "L">>, 14>>,
              <<<<"D", "I", "V">>, 15>>, <<<<"C", "A", "L", "L">>, 16>>, <<<<"C", "A", "L", "L", "N", "A", "T">>, 17>>, <<<<"R", "E", "T">>, 18>>,
              <<<<"H", "A", "L", "T">>, 255>> >>

\* Op[name].value; -1 stands for the KeyError of an unknown name
OpValue(name) == IF \E i \in 1..Len(OpTable) : OpTable[i][1] = name
                 THEN OpTable[CHOOSE i \in 1..Len(OpTable) : OpTable[i][1] = name][2]
                 ELSE -1

normalize_op_name(op_name) ==
    LET l == Lower(op_name)
    IN IF l = <<"j", "m", "p">> THEN <<"J", "M", "P", "_", "A", "B", "S">>
       ELSE IF l = <<"j", "e", "q">> THEN <<"J", "M", "P", "_", "E", "Q">>
       ELSE IF l = <<"j", "n", "e">> THEN <<"J", "M", "P", "_", "N", "E">>
       ELSE IF l = <<"a", "d", "d">> THEN <<"A", "D", "D">>
       ELSE IF l = <<"s", "u", "b">> THEN <<"S", "U", "B">>
       ELSE IF l = <<"m", "u", "l">> THEN <<"M", "U", "L">>
       ELSE IF l = <<"d", "i", "v">> THEN <<"D", "I", "V">>
       ELSE Upper(op_name)

\* the while loop building bytes_needed: big-endian, most significant first
RECURSIVE BytesNeeded(_)
BytesNeeded(temp) == IF temp > 0 THEN Append(BytesNeeded(temp \div 256), temp % 256) ELSE <<>>

\* a jmp encoding that leaves out the 0x00 terminator
JumpFragmentNoTerminator(opv, address) == <<opv>> \o BytesNeeded(address)

\* the tuple a jmp returns for a resolved address
JumpFragment(opv, address) ==
    IF address = 0 THEN <<opv, 0>>
    ELSE <<opv>> \o BytesNeeded(address) \o <<0>>

\* the tuple returned for a quoted string operand:
\* (op.value, *string_bytes, 0) with string_bytes = literal.encode() + b'\x00'
StringFragment(opv, operand) ==
    LET string_bytes == Encode(StripQuotes(operand)) \o <<0>>
    IN <<opv>> \o string_bytes \o <<0>>

IsQuoted(operand) == operand # <<>> /\ operand[1] = "\"" /\ operand[Len(operand)] = "\""

Frag(f) == [err |-> "", frag |-> f]
RaiseIns(e) == [err |-> e, frag |-> <<>>]

\* What the regex (\w+)(?:\s+(.+))? sees of a line handed to parse_instruction:
\* of  name: content  it matches the name alone, with no operand
InsView(line) == IF line.k = "datadef" THEN [w |-> line.name, opd |-> <<>>]
                 ELSE [w |-> line.w, opd |-> line.opd]

\* Is the mnemonic one that pass 2 encodes as a jump
IsJumpOp(op_name) == Lower(op_name) = <<"j", "m", "p">>

\* parse_instruction: the fragment (a tuple, with bytes objects spliced in)
\* appended to output, or the exception raised
parse_instruction(s, line) ==
    LET iv == InsView(line)
        op_name == Upper(iv.w)
        has_operand == iv.opd # <<>>
        operand == Join(iv.opd)
        opv == OpValue(normalize_op_name(op_name))
    IN IF iv.w = <<>> THEN RaiseIns("ValueError: Invalid instruction")
       ELSE IF opv < 0 THEN RaiseIns("KeyError")
       ELSE IF IsJumpOp(op_name) THEN
            IF has_operand /\ operand \in DOMAIN s.labels
                THEN Frag(JumpFragment(opv, s.labels[operand]))
            ELSE IF has_operand /\ AnyDigit(operand)
                THEN IF IntBase16(operand) < 0 THEN RaiseIns("ValueError: invalid literal")
                     ELSE Frag(JumpFragment(opv, IntBase16(operand)))
            ELSE RaiseIns("ValueError: Invalid operand")
       ELSE IF has_operand THEN
            IF AnyDigit(operand)
                THEN IF IntBase16(operand) < 0 THEN RaiseIns("ValueError: invalid literal")
                     ELSE Frag(<<opv, IntBase16(operand)>>)
            ELSE IF IsQuoted(operand) THEN Frag(StringFragment(opv, operand))
            ELSE IF operand[1] = "$"
                THEN IF Tail(operand) \in DOMAIN s.data
                     THEN Frag(<<opv>> \o s.data[Tail(operand)])
                     ELSE RaiseIns("ValueError: Undefined label")
            ELSE Frag(<<opv>> \o Encode(operand) \o <<0>>)
       ELSE Frag(<<opv>>)

----------------------------------------------------------------------------
(* Pass 2: parse_line and parse_directive on the Assembler object s       *)

\* dict assignment d[k] = v
Put(d, k, v) == [x \in (DOMAIN d) \cup {k} |-> IF x = k THEN v ELSE d[x]]

EmptyDict == [x \in {} |-> 0]

\* [int(x, 16) for x in tokens]
HexList(toks) == [i \in 1..Len(toks) |-> IntBase16(toks[i])]
HexListOk(toks) == \A i \in 1..Len(toks) : IntBase16(toks[i]) >= 0

\* The result of handling one line: the object afterwards, the exception
\* raised ("" for none), and whether the line is a %endrep that starts the
\* replay loop of parse_directive
Done(s) == [s |-> s, err |-> "", replay |-> FALSE]
Raise(s, e) == [s |-> s, err |-> e, replay |-> FALSE]
Replay(s) == [s |-> s, err |-> "", replay |-> TRUE]

\* line.startswith('%endrep')
StartsWithEndrep(line) == line.k = "dir" /\ StartsWith(line.w, <<"e", "n", "d", "r", "e", "p">>)

\* The directive dispatch of parse_directive.  The endrep case sets in_rep
\* and hands the replay loop to the actions EndRepBegin .. ReplayEnd.
\* No file exists under root_dir: the open() of an include raises.
parse_directive(s, line) ==
    LET directive == Lower(line.w)
        has_operand == line.opd # <<>>
        operand == Join(line.opd)
    IN IF line.w = <<>> THEN Raise(s, "ValueError: Invalid directive")
       ELSE IF directive = <<"i", "n", "c", "l", "u", "d", "e">> THEN
            IF has_operand THEN Raise(s, "FileNotFoundError") ELSE Raise(s, "AttributeError")
       ELSE IF directive = <<"r", "e", "p">> THEN
            LET s1 == [s EXCEPT !.in_rep = TRUE]
            IN IF ~has_operand THEN Raise(s1, "TypeError")
               ELSE IF IntBase10(operand) < 0 THEN Raise(s1, "ValueError: invalid literal")
               ELSE Done([s1 EXCEPT !.rep_count = IntBase10(operand)])
       ELSE IF directive = <<"e", "n", "d", "r", "e", "p">> THEN Replay([s EXCEPT !.in_rep = FALSE])
       ELSE IF directive = <<"d", "a", "t", "a">> THEN Done([s EXCEPT !.in_data_section = TRUE])
       ELSE IF directive = <<"e", "n", "d", "d", "a", "t", "a">> THEN Done([s EXCEPT !.in_data_section = FALSE])
       ELSE IF directive = <<"b", "y", "t", "e", "s">> THEN
            IF ~has_operand THEN Raise(s, "AttributeError")
            ELSE IF ~HexListOk(line.opd) THEN Raise(s, "ValueError: invalid literal")
            ELSE Done([s EXCEPT !.output = Append(@, HexList(line.opd))])
       ELSE IF directive = <<"s", "t", "r", "i", "n", "g">> THEN
            IF ~has_operand THEN Raise(s, "AttributeError")
            ELSE Done([s EXCEPT !.output = Append(@, Encode(StripQuotes(operand)) \o <<0>>)])
       ELSE Done(s)

\* group(1) of the regex "([^"]+)" at the start of the text: the characters
\* between an opening quote and the next quote; <<>> when it does not match
QuotedGroup(t) ==
    IF Len(t) >= 3 /\ t[1] = "\"" /\ t[2] # "\"" /\ \E j \in 3..Len(t) : t[j] = "\""
    THEN SubSeq(t, 2, (CHOOSE j \in 3..Len(t) : t[j] = "\"" /\ \A i \in 3..(j - 1) : t[i] # "\"") - 1)
    ELSE <<>>

\* The data-section branch of parse_line for a  name: content  line.
\* content starts with %w when w is not empty and is the bare operand text
\* otherwise.
parse_data_line(s, line) ==
    LET label_name == line.name
        content == Join(line.opd)
    IN IF StartsWith(line.w, <<"s", "t", "r", "i", "n", "g">>) THEN
            IF line.w = <<"s", "t", "r", "i", "n", "g">> /\ QuotedGroup(content) # <<>>
            THEN Done([s EXCEPT !.data = Put(@, label_name, Encode(QuotedGroup(content)) \o <<0>>)])
            ELSE Done(s)
       ELSE IF StartsWith(line.w, <<"b", "y", "t", "e", "s">>) THEN
            IF line.w = <<"b", "y", "t", "e", "s">> /\ line.opd # <<>>
            THEN IF HexListOk(line.opd)
                 THEN Done([s EXCEPT !.data = Put(@, label_name, HexList(line.opd))])
                 ELSE Raise(s, "ValueError: invalid literal")
            ELSE Done(s)
       ELSE IF line.w = <<>> /\ line.opd # <<>> /\ HexListOk(line.opd)
            THEN Done([s EXCEPT !.data = Put(@, label_name, HexList(line.opd))])
            ELSE Done(s)

\* define_data_label: never called by parse_line
define_data_label(s, label, value) ==
    IF label \in DOMAIN s.data THEN Raise(s, "ValueError: Duplicate data label")
    ELSE Done([s EXCEPT !.data = Put(@, label, value)])

parse_line(s, line) ==
    IF line.k = "blank" THEN Done(s)
    ELSE IF s.in_rep /\ ~StartsWithEndrep(line)
        THEN Done([s EXCEPT !.rep_buffer = Append(@, line)])
    ELSE IF line.k = "dir" THEN parse_directive(s, line)
    ELSE IF line.k = "label" THEN Done(s)
    ELSE IF s.in_data_section THEN
        IF line.k = "datadef" THEN parse_data_line(s, line) ELSE Done(s)
    ELSE LET r == parse_instruction(s, line)
         IN IF r.err # "" THEN Raise(s, r.err)
            ELSE Done([s EXCEPT !.output = Append(@, r.frag)])

----------------------------------------------------------------------------
(* Pass 1: the label collection loop of assemble                           *)

\* One iteration of the first loop over a line, on the locals
\* p = [labels, address, in_data_section]
pass1_line(p, line) ==
    IF line.k = "blank" THEN p
    ELSE IF line.k = "dir" THEN
        IF line.w = <<>> THEN p
        ELSE IF Lower(line.w) = <<"d", "a", "t", "a">> THEN [p EXCEPT !.in_data_section = TRUE]
        ELSE IF Lower(line.w) = <<"e", "n", "d", "d", "a", "t", "a">> THEN [p EXCEPT !.in_data_section = FALSE]
        ELSE IF Lower(line.w) = <<"b", "y", "t", "e", "s">> /\ line.opd # <<>>
            THEN [p EXCEPT !.address = @ + Len(line.opd)]
        ELSE p
    ELSE IF line.k = "label" THEN [p EXCEPT !.labels = Put(@, line.name, p.address)]
    ELSE IF p.in_data_section /\ line.k = "datadef"
        THEN [p EXCEPT !.labels = Put(@, line.name, p.address)]
    ELSE IF ~p.in_data_section THEN
        IF line.k = "ins" /\ line.opd # <<>> THEN
            IF StartsWith(line.w, <<"j">>) THEN [p EXCEPT !.address = @ + 4]
            ELSE [p EXCEPT !.address = @ + 2]
        ELSE [p EXCEPT !.address = @ + 1]
    ELSE p

\* Flatten output: every tuple item is appended (an int) or spliced (bytes)
RECURSIVE Flatten(_)
Flatten(output) == IF output = <<>> THEN <<>> ELSE output[1] \o Flatten(Tail(output))

\* bytes(flat_output) raises ValueError unless every value is in range(0, 256)
BytesOk(flat) == \A i \in 1..Len(flat) : flat[i] >= 0 /\ flat[i] <= 255

----------------------------------------------------------------------------
(* Source programs                                                         *)

Blank == [k |-> "blank", w |-> <<>>, name |-> <<>>, opd |-> <<>>]
Label(n) == [k |-> "label", w |-> <<>>, name |-> n, opd |-> <<>>]
Dir(w, opd) == [k |-> "dir", w |-> w, name |-> <<>>, opd |-> opd]
DataDef(n, w, opd) == [k |-> "datadef", w |-> w, name |-> n, opd |-> opd]
Ins(w, opd) == [k |-> "ins", w |-> w, name |-> <<>>, opd |-> opd]

Nop == Ins(<<"n", "o", "p">>, <<>>)
Rep(n) == Dir(<<"r", "e", "p">>, <<n>>)
EndRep == Dir(<<"e", "n", "d", "r", "e", "p">>, <<>>)

\* the worked example of the specification
Worked == << Ins(<<"p", "u", "s", "h", "i">>, <<<<"4">>>>), Ins(<<"p", "u", "s", "h", "i">>, <<<<"2">>>>), Ins(<<"a", "d", "d">>, <<>>),
             Ins(<<"p", "o", "p", "i">>, <<>>), Ins(<<"j", "m", "p">>, <<<<"0", "x", "0", "8">>>>), Ins(<<"j", "m", "p">>, <<<<"0", "x", "F", "F">>>>) >>

\* a label after a jump, and a label after one-byte instructions only
AfterJump == << Ins(<<"j", "m", "p">>, <<<<"0", "x", "0", "8">>>>), Label(<<"L">>), Nop, Ins(<<"j", "m", "p">>, <<<<"L">>>>) >>
AfterNop == << Blank, Nop, Label(<<"L">>), Nop >>

\* jumps of every mnemonic to a label, at address 1 and at address 0
JumpFamily == << Nop, Label(<<"L">>), Nop, Ins(<<"j", "m", "p">>, <<<<"L">>>>), Ins(<<"j", "e", "q">>, <<<<"L">>>>),
                 Ins(<<"j", "n", "e">>, <<<<"L">>>>) >>
JumpZero == << Label(<<"L">>), Ins(<<"J", "M", "P">>, <<<<"L">>>>), Ins(<<"j", "e", "q">>, <<<<"L">>>>) >>

\* a repetition block followed by a label and a jump to it, and one alone
RepThenLabel == << Rep(<<"2">>), Nop, EndRep, Label(<<"L">>), Ins(<<"j", "m", "p">>, <<<<"L">>>>) >>
RepAlone == << Rep(<<"3">>), Ins(<<"p", "u", "s", "h", "i">>, <<<<"4">>>>), EndRep, Ins(<<"h", "a", "l", "t">>, <<>>) >>

\* a repetition block and a data section left open at the end of the text
OpenRep == << Nop, Rep(<<"2">>), Nop >>
OpenData == << Nop, Dir(<<"d", "a", "t", "a">>, <<>>), DataDef(<<"a">>, <<>>, <<<<"0", "1">>>>) >>

\* data sections: one name defined twice, and every kind of content
DupData == << Dir(<<"d", "a", "t", "a">>, <<>>), DataDef(<<"a">>, <<"b", "y", "t", "e", "s">>, <<<<"0", "1">>>>),
              DataDef(<<"a">>, <<"b", "y", "t", "e", "s">>, <<<<"0", "2">>>>), Dir(<<"e", "n", "d", "d", "a", "t", "a">>, <<>>),
              Ins(<<"p", "u", "s", "h", "s", "z">>, <<<<"$", "a">>>>) >>
DataKinds == << Dir(<<"d", "a", "t", "a">>, <<>>), Nop, DataDef(<<"a">>, <<>>, <<<<"z", "z">>>>),
                DataDef(<<"b">>, <<>>, <<<<"0", "1">>, <<"0", "x", "2", "a">>>>), DataDef(<<"c">>, <<"s", "t", "r", "i", "n", "g">>, <<<<"\"", "h", "i", "\"">>>>),
                Dir(<<"e", "n", "d", "d", "a", "t", "a">>, <<>>), Ins(<<"p", "u", "s", "h", "s", "z">>, <<<<"$", "b">>>>), Ins(<<"p", "u", "s", "h", "s", "z">>, <<<<"$", "c">>>>) >>

\* directives: an unknown name, a bare %, raw literals
UnknownDir == << Dir(<<"f", "o", "o">>, <<>>), Nop >>
BareDir == << Nop, Dir(<<>>, <<>>), Nop >>
RawLiterals == << Dir(<<"b", "y", "t", "e", "s">>, <<<<"0", "1">>, <<"0", "2">>>>), Dir(<<"s", "t", "r", "i", "n", "g">>, <<<<"\"", "h", "i", "\"">>>>),
                  Label(<<"L">>), Ins(<<"j", "m", "p">>, <<<<"L">>>>) >>

\* operands: quoted string, bare identifier, out-of-range integer
StrOperand == << Ins(<<"p", "u", "s", "h", "s", "z">>, <<<<"\"", "h", "i", "\"">>>>) >>
IdentOperand == << Ins(<<"p", "u", "s", "h", "s", "z">>, <<<<"h", "i">>>>), Ins(<<"p", "u", "s", "h", "s", "z">>, <<<<"$", "a">>>>) >>
BigOperand == << Ins(<<"p", "u", "s", "h", "i">>, <<<<"0", "x", "1", "0", "0">>>>) >>

\* jump addresses with and without a zero byte
JumpWide == << Ins(<<"j", "m", "p">>, <<<<"0", "x", "1", "f", "f">>>>), Ins(<<"j", "m", "p">>, <<<<"0", "x", "1", "0", "0">>>>) >>

\* a %rep line inside a %rep body, first and last in the body
NestedFirst == << Rep(<<"1">>), Rep(<<"2">>), Nop, EndRep >>
NestedLast == << Rep(<<"1">>), Nop, Rep(<<"3">>), EndRep, Ins(<<"h", "a", "l", "t">>, <<>>) >>
RepBadBody == << Rep(<<"1">>), Ins(<<"f", "r", "o", "b">>, <<>>), EndRep >>

RECURSIVE Copies(_, _)
Copies(n, body) == IF n = 0 THEN <<>> ELSE body \o Copies(n - 1, body)

IsRepLine(l) == l.k = "dir" /\ l.w = <<"r", "e", "p">> /\ Len(l.opd) = 1 /\ IntBase10(l.opd[1]) >= 0
IsEndRepLine(l) == l.k = "dir" /\ l.w = <<"e", "n", "d", "r", "e", "p">>
NoRepLine(l) == ~(l.k = "dir" /\ (StartsWith(Lower(l.w), <<"r", "e", "p">>) \/ StartsWith(Lower(l.w), <<"e", "n", "d", "r", "e", "p">>)))

\* lines i..j of P are a block  %rep N / body / %endrep  and no other line
\* of P is a %rep or %endrep line
IsRepBlock(P, i, j) ==
    /\ IsRepLine(P[i]) /\ IsEndRepLine(P[j])
    /\ \A m \in 1..Len(P) : m \notin {i, j} => NoRepLine(P[m])

HasRepBlock(P) == \E i \in 1..Len(P) : \E j \in (i + 1)..Len(P) : IsRepBlock(P, i, j)

\* P with its block replaced by N copies of the body
RepExpand(P) ==
    LET i == CHOOSE i \in 1..Len(P) : \E j \in (i + 1)..Len(P) : IsRepBlock(P, i, j)
        j == CHOOSE j \in (i + 1)..Len(P) : IsRepBlock(P, i, j)
    IN SubSeq(P, 1, i - 1) \o Copies(IntBase10(P[i].opd[1]), SubSeq(P, i + 1, j - 1))
         \o SubSeq(P, j + 1, Len(P))

BasePrograms == { Worked, AfterJump, AfterNop, JumpFamily, JumpZero, RepThenLabel, RepAlone,
                  OpenRep, OpenData, DupData, DataKinds, UnknownDir, BareDir, RawLiterals,
                  StrOperand, IdentOperand, BigOperand, JumpWide, NestedFirst, NestedLast,
                  RepBadBody }

Programs == BasePrograms \cup { RepExpand(P) : P \in { Q \in BasePrograms : HasRepBlock(Q) } }

----------------------------------------------------------------------------
(* The Assembler object and a run of assemble                              *)

\* number of assemble calls in one behaviour
MaxCalls == 2
\* lines a replay loop may add to the buffer it iterates over
MaxGrow == 3

VARIABLES
    self,           \* the Assembler object: in_rep, rep_count, rep_buffer, labels,
                    \*   in_data_section, data, output
    pc,             \* "idle", "pass1", "pass2", "replay", "returned", "aborted"
    code,           \* lines = code.splitlines() of the current call
    idx,            \* position of the for loop of the current pass
    address,        \* local address of pass 1
    in_data_section,\* local in_data_section of pass 1
    rep_n,          \* range(self.rep_count) of the running replay loop
    rep_iter,       \* its outer iteration, 1..rep_n
    rep_pos,        \* its position in self.rep_buffer
    result,         \* the bytes returned
    err,            \* the exception that ended the call, "" for none
    calls,          \* assemble calls made on this object so far
    total,          \* assemble calls made in this behaviour
    ref,            \* observer: outcome of the first call of the behaviour, made on a
                    \*   new Assembler
    label_offset,   \* observer: output bytes emitted before each label line
    last_emit,      \* observer: the line last encoded by parse_instruction and its fragment
    rep_len0        \* observer: len(self.rep_buffer) when the replay loop began

vars == << self, pc, code, idx, address, in_data_section, rep_n, rep_iter, rep_pos,
           result, err, calls, total, ref, label_offset, last_emit, rep_len0 >>

run_vars == << code, idx, address, in_data_section, result, err >>
rep_vars == << rep_n, rep_iter, rep_pos, rep_len0 >>

\* Assembler.__init__
NewAssembler == [in_rep |-> FALSE, rep_count |-> 0, rep_buffer |-> <<>>, labels |-> EmptyDict,
                 in_data_section |-> FALSE, data |-> EmptyDict, output |-> <<>>]

NoEmit == [line |-> Blank, frag |-> <<>>]
NoRef == [set |-> FALSE, code |-> <<>>, ok |-> FALSE, bytes |-> <<>>]

Init ==
    /\ self = NewAssembler
    /\ pc = "idle"
    /\ code = <<>>
    /\ idx = 1
    /\ address = 0
    /\ in_data_section = FALSE
    /\ rep_n = 0 /\ rep_iter = 1 /\ rep_pos = 1 /\ rep_len0 = 0
    /\ result = <<>>
    /\ err = ""
    /\ calls = 0
    /\ total = 0
    /\ ref = NoRef
    /\ label_offset = EmptyDict
    /\ last_emit = NoEmit

Between == pc \in {"idle", "returned", "aborted"}

\* A new Assembler replaces the used one
Construct ==
    /\ Between /\ calls > 0
    /\ self' = NewAssembler
    /\ calls' = 0
    /\ pc' = "idle"
    /\ UNCHANGED << run_vars, rep_vars, total, ref, label_offset, last_emit >>

\* assemble(code), up to the first loop
Call(c) ==
    /\ Between /\ total < MaxCalls
    /\ self' = [self EXCEPT !.labels = EmptyDict, !.output = <<>>, !.data = EmptyDict]
    /\ code' = c
    /\ address' = 0
    /\ in_data_section' = FALSE
    /\ idx' = 1
    /\ pc' = "pass1"
    /\ result' = <<>> /\ err' = ""
    /\ calls' = calls + 1 /\ total' = total + 1
    /\ label_offset' = EmptyDict
    /\ last_emit' = NoEmit
    /\ UNCHANGED << rep_vars, ref >>

\* one iteration of the first loop
Pass1Step ==
    /\ pc = "pass1" /\ idx <= Len(code)
    /\ LET p == pass1_line([labels |-> self.labels, address |-> address,
                            in_data_section |-> in_data_section], code[idx])
       IN /\ self' = [self EXCEPT !.labels = p.labels]
          /\ address' = p.address
          /\ in_data_section' = p.in_data_section
    /\ idx' = idx + 1
    /\ UNCHANGED << pc, code, result, err, rep_vars, calls, total, ref, label_offset, last_emit >>

Pass1End ==
    /\ pc = "pass1" /\ idx > Len(code)
    /\ pc' = "pass2"
    /\ idx' = 1
    /\ UNCHANGED << self, code, address, in_data_section, result, err, rep_vars, calls, total,
                    ref, label_offset, last_emit >>

\* the call is over: the outcome of the first call is kept for comparison
Outcome(ok, bytes) == IF total = 1 THEN [set |-> TRUE, code |-> code, ok |-> ok, bytes |-> bytes]
                      ELSE ref

\* parse_line reaches  if line.endswith(':')  with this line
ReachesLabel(s, line) == line.k = "label" /\ ~(s.in_rep /\ ~StartsWithEndrep(line))

\* parse_line hands this line to parse_instruction
ReachesEncoder(s, line) ==
    /\ line.k \in {"ins", "datadef"}
    /\ ~(s.in_rep /\ ~StartsWithEndrep(line))
    /\ ~s.in_data_section

Observe(s, line, r) ==
    /\ label_offset' = IF ReachesLabel(s, line) /\ ~s.in_data_section
                       THEN Put(label_offset, line.name, Len(Flatten(s.output)))
                       ELSE label_offset
    /\ last_emit' = IF ReachesEncoder(s, line) /\ r.err = ""
                    THEN [line |-> line, frag |-> r.s.output[Len(r.s.output)]]
                    ELSE last_emit

\* one iteration of the second loop: parse_line returns
Pass2Step ==
    /\ pc = "pass2" /\ idx <= Len(code)
    /\ LET r == parse_line(self, code[idx])
       IN /\ r.err = "" /\ ~r.replay
          /\ self' = r.s
          /\ Observe(self, code[idx], r)
    /\ idx' = idx + 1
    /\ UNCHANGED << pc, code, address, in_data_section, result, err, rep_vars, calls, total, ref >>

\* parse_line raises: the exception leaves assemble
Pass2Raise ==
    /\ pc = "pass2" /\ idx <= Len(code)
    /\ LET r == parse_line(self, code[idx])
       IN /\ r.err # ""
          /\ self' = r.s
          /\ err' = r.err
    /\ pc' = "aborted"
    /\ ref' = Outcome(FALSE, <<>>)
    /\ UNCHANGED << code, idx, address, in_data_section, result, rep_vars, calls, total,
                    label_offset, last_emit >>

\* %endrep: in_rep = False, then the loops over range(rep_count) and rep_buffer begin
EndRepBegin ==
    /\ pc = "pass2" /\ idx <= Len(code)
    /\ LET r == parse_line(self, code[idx])
       IN /\ r.err = "" /\ r.replay
          /\ self' = r.s
    /\ rep_n' = self.rep_count
    /\ rep_iter' = 1
    /\ rep_pos' = 1
    /\ rep_len0' = Len(self.rep_buffer)
    /\ pc' = "replay"
    /\ UNCHANGED << run_vars, calls, total, ref, label_offset, last_emit >>

\* parse_line(rep_line) for the next line of the list being iterated
ReplayStep ==
    /\ pc = "replay" /\ rep_iter <= rep_n /\ rep_pos <= Len(self.rep_buffer)
    /\ LET r == parse_line(self, self.rep_buffer[rep_pos])
       IN /\ r.err = "" /\ ~r.replay
          /\ Len(r.s.rep_buffer) <= rep_len0 + MaxGrow
          /\ self' = r.s
          /\ Observe(self, self.rep_buffer[rep_pos], r)
    /\ rep_pos' = rep_pos + 1
    /\ UNCHANGED << pc, run_vars, rep_n, rep_iter, rep_len0, calls, total, ref >>

ReplayRaise ==
    /\ pc = "replay" /\ rep_iter <= rep_n /\ rep_pos <= Len(self.rep_buffer)
    /\ LET r == parse_line(self, self.rep_buffer[rep_pos])
       IN /\ r.err # ""
          /\ self' = r.s
          /\ err' = r.err
    /\ pc' = "aborted"
    /\ ref' = Outcome(FALSE, <<>>)
    /\ UNCHANGED << code, idx, address, in_data_section, result, rep_vars, calls, total,
                    label_offset, last_emit >>

\* the inner loop reached the end of the list
ReplayNextIter ==
    /\ pc = "replay" /\ rep_iter <= rep_n /\ rep_pos > Len(self.rep_buffer)
    /\ rep_iter' = rep_iter + 1
    /\ rep_pos' = 1
    /\ UNCHANGED << self, pc, run_vars, rep_n, rep_len0, calls, total, ref, label_offset,
                    last_emit >>

\* after the loops: rep_buffer = [], rep_count = 0, back in the second loop
ReplayEnd ==
    /\ pc = "replay" /\ rep_iter > rep_n
    /\ self' = [self EXCEPT !.rep_buffer = <<>>, !.rep_count = 0]
    /\ pc' = "pass2"
    /\ idx' = idx + 1
    /\ UNCHANGED << code, address, in_data_section, result, err, rep_vars, calls, total, ref,
                    label_offset, last_emit >>

\* flatten and return bytes(flat_output)
Return ==
    /\ pc = "pass2" /\ idx > Len(code)
    /\ BytesOk(Flatten(self.output))
    /\ result' = Flatten(self.output)
    /\ pc' = "returned"
    /\ ref' = Outcome(TRUE, Flatten(self.output))
    /\ UNCHANGED << self, code, idx, address, in_data_section, err, rep_vars, calls, total,
                    label_offset, last_emit >>

\* bytes(flat_output) raises
ReturnRaise ==
    /\ pc = "pass2" /\ idx > Len(code)
    /\ ~BytesOk(Flatten(self.output))
    /\ err' = "ValueError: bytes must be in range(0, 256)"
    /\ pc' = "aborted"
    /\ ref' = Outcome(FALSE, <<>>)
    /\ UNCHANGED << self, code, idx, address, in_data_section, result, rep_vars, calls, total,
                    label_offset, last_emit >>

Next ==
    \/ Construct
    \/ \E c \in Programs : Call(c)
    \/ Pass1Step
    \/ Pass1End
    \/ Pass2Step
    \/ Pass2Raise
    \/ EndRepBegin
    \/ ReplayStep
    \/ ReplayRaise
    \/ ReplayNextIter
    \/ ReplayEnd
    \/ Return
    \/ ReturnRaise

Spec == Init /\ [][Next]_vars

----------------------------------------------------------------------------
(* Properties                                                              *)

Finished == pc \in {"returned", "aborted"}

\* the label table of the current call is in place
LabelsInPlace == pc \in {"pass2", "replay", "returned", "aborted"}

Operand(line) == Join(line.opd)

\* the bytes of A, most significant first, without a leading zero byte
MinimalBigEndian(A) ==
    IF A = 0 THEN <<>>
    ELSE IF A < 256 THEN <<A>>
    ELSE IF A < 65536 THEN <<A \div 256, A % 256>>
    ELSE <<A \div 65536, (A \div 256) % 256, A % 256>>

RECURSIVE BigEndianValue(_)
BigEndianValue(b) == IF b = <<>> THEN 0
                     ELSE BigEndianValue(SubSeq(b, 1, Len(b) - 1)) * 256 + b[Len(b)]

\* the bytes a reader consumes up to, not including, the first 0x00
ReadToZero(t) == IF \E i \in 1..Len(t) : t[i] = 0
                 THEN SubSeq(t, 1, (CHOOSE i \in 1..Len(t) : t[i] = 0 /\ \A j \in 1..(i - 1) : t[j] # 0) - 1)
                 ELSE t

JumpFamilyNames == { <<"j", "m", "p">>, <<"j", "e", "q">>, <<"j", "n", "e">> }

\* C1: when assemble returns, every label defined by a  name:  line outside a
\* data block has in the symbol table the number of output bytes emitted
\* before that line.
C1_LabelAddressIsOffset ==
    pc = "returned" =>
        \A n \in DOMAIN label_offset :
            n \in DOMAIN self.labels /\ self.labels[n] = label_offset[n]

\* C2: assemble of the worked example returns the ten bytes
\* 01 04 01 02 0C 03 08 08 08 FF.
C2_WorkedTenBytes ==
    (Finished /\ code = Worked)
        => (pc = "returned" /\ result = <<1, 4, 1, 2, 12, 3, 8, 8, 8, 255>>)

\* C2 (amended): on a new Assembler, assemble of the worked example returns
\* the twelve bytes 01 04 01 02 0C 03 08 08 00 08 FF 00: each jmp address is
\* followed by its 0x00 terminator.
C2_WorkedTwelveBytes ==
    (Finished /\ code = Worked /\ calls = 1)
        => (pc = "returned" /\ result = <<1, 4, 1, 2, 12, 3, 8, 8, 0, 8, 255, 0>>)

C2_WorkedReturned == pc = "returned" /\ code = Worked /\ calls = 1

\* C3: a jmp, jeq or jne whose operand is a label of the symbol table with
\* address A is encoded as the opcode, the minimal big-endian bytes of A and
\* one 0x00; for A = 0 as the opcode and 0x00.
C3_JumpFamilyEncodesLabel ==
    LET line == last_emit.line
    IN (/\ LabelsInPlace
        /\ line.k = "ins"
        /\ Lower(line.w) \in JumpFamilyNames
        /\ line.opd # <<>>
        /\ Operand(line) \in DOMAIN self.labels)
       => last_emit.frag = <<OpValue(normalize_op_name(Upper(line.w)))>>
                             \o MinimalBigEndian(self.labels[Operand(line)]) \o <<0>>

\* C4: a program with a block  %rep N / body / %endrep  (its only %rep)
\* assembles, on a new Assembler, to the same outcome as the program with the
\* block replaced by N copies of the body.
C4_RepEqualsExpansion ==
    (/\ Finished /\ calls = 1 /\ total > 1
     /\ ref.set /\ HasRepBlock(ref.code)
     /\ code = RepExpand(ref.code))
    => ((pc = "returned") = ref.ok /\ result = ref.bytes)

\* C5: a text that assembles on a new Assembler gives the same bytes when it
\* is assembled on an Assembler that has been used before.
C5_RerunSameBytes ==
    (Finished /\ ref.set /\ ref.ok /\ code = ref.code)
        => (pc = "returned" /\ result = ref.bytes)

\* C6: when a  name: content  line of a data section that compiles to bytes
\* is processed and the name is already in the data table, the run aborts
\* and the table keeps the first definition.
C6_DuplicateDataAborts ==
    [][(/\ pc = "pass2" /\ idx <= Len(code)
        /\ code[idx].k = "datadef"
        /\ ~self.in_rep /\ self.in_data_section
        /\ code[idx].name \in DOMAIN self.data
        /\ parse_data_line(NewAssembler, code[idx]).s.data # EmptyDict)
       => (pc' = "aborted" /\ self'.data = self.data)]_vars

KnownDirectives == { <<"i", "n", "c", "l", "u", "d", "e">>, <<"r", "e", "p">>, <<"e", "n", "d", "r", "e", "p">>, <<"d", "a", "t", "a">>, <<"e", "n", "d", "d", "a", "t", "a">>, <<"b", "y", "t", "e", "s">>, <<"s", "t", "r", "i", "n", "g">> }

\* C7: when a % line whose directive name is not a known one is processed
\* outside a %rep body, the run aborts.
C7_UnknownDirectiveAborts ==
    [][(/\ pc = "pass2" /\ idx <= Len(code)
        /\ code[idx].k = "dir"
        /\ code[idx].w \notin KnownDirectives
        /\ ~self.in_rep)
       => pc' = "aborted"]_vars

\* C8: a non-jump instruction with a quoted string operand without a digit
\* is encoded as the opcode, the bytes of the text between the quotes and
\* exactly one 0x00: 1 + len(text) + 1 bytes.
C8_StringOperandOneTerminator ==
    LET line == last_emit.line
        text == SubSeq(Operand(line), 2, Len(Operand(line)) - 1)
    IN (/\ line.k = "ins"
        /\ ~StartsWith(Lower(line.w), <<"j">>)
        /\ line.opd # <<>>
        /\ Len(Operand(line)) >= 2
        /\ IsQuoted(Operand(line))
        /\ ~AnyDigit(Operand(line)))
       => /\ Len(last_emit.frag) = 1 + Len(text) + 1
          /\ last_emit.frag = <<OpValue(normalize_op_name(Upper(line.w)))>> \o Encode(text) \o <<0>>

\* the address a jmp operand resolves to: a label first, else a base-16 literal
ResolvedAddress(operand) == IF operand \in DOMAIN self.labels THEN self.labels[operand]
                            ELSE IntBase16(operand)

\* C9: the bytes after a jmp opcode hold exactly one 0x00, the last one, and
\* the bytes before it are the big-endian value of the resolved address.
C9_JumpAddressSelfDelimiting ==
    LET line == last_emit.line
        t == Tail(last_emit.frag)
    IN (/\ LabelsInPlace
        /\ line.k = "ins"
        /\ Lower(line.w) = <<"j", "m", "p">>
        /\ line.opd # <<>>
        /\ ResolvedAddress(Operand(line)) >= 0)
       => /\ t # <<>> /\ t[Len(t)] = 0
          /\ \A i \in 1..(Len(t) - 1) : t[i] # 0
          /\ BigEndianValue(ReadToZero(t)) = ResolvedAddress(Operand(line))

\* C10: the repetition buffer does not grow while %endrep replays it, so the
\* replay loop finishes.
C10_ReplayBufferFixed ==
    pc = "replay" => Len(self.rep_buffer) = rep_len0

====
